---------------------------- MODULE Spec2Model ----------------------------
(***************************************************************************)
(* Model of XSLocobotRobot (xslocobot_robot.py): the joystick callback     *)
(* joy_control_cb, the control loop body controller, and the helpers       *)
(* update_speed, update_gripper_pressure and update_T_yb.                  *)
(*                                                                         *)
(* Units.  Loop rates are in Hz.  Gripper pressure is counted in eighths   *)
(* (gripper_pressure_step = 0.125 = 1/8, exact in binary floating point).  *)
(* Lengths are counted in hundredths of a metre (translate_step = 0.01)    *)
(* and angles in hundredths of a radian (waist_step = 0.06,                *)
(* rotate_step = 0.04).                                                    *)
(*                                                                         *)
(* A rigid transform T is held by its yaw-frame coordinates                *)
(*     T = Rz(yaw) * [ Ry(pitch) Rx(roll) | (x, y, z) ]                    *)
(* so that a product with a pure yaw rotation adds yaws.  While yaw = 0    *)
(* the entries T[0,3], T[1,3], T[2,3] of the matrix are x, y, z.           *)
(***************************************************************************)
EXTENDS Integers, Sequences, FiniteSets, TLC

VARIABLES
    \* ---- XSLocobotRobot attributes
    use_base,                  \* pargs.use_base
    arm_model,                 \* "none" for a base-only robot
    num_joints,                \* arm.group_info.num_joints
    waist_ll, waist_ul,        \* waist joint limits read at construction
    current_loop_rate,         \* [Hz]
    rate_is_float,             \* whether each rate is a Python float (else int)
    loop_rates,                \* {'coarse': .., 'fine': ..}
    rate,                      \* frequency of the Rate object used by rate.sleep()
    current_gripper_pressure,  \* in eighths
    joy_msg,                   \* the held LocobotJoy message
    joy_mutex,                 \* "free", or the thread holding the Lock
    T_sy, T_yb,
    \* ---- the two threads
    cb_pc, cb_msg,             \* subscription callback: position and its argument msg
    ctrl_pc, msg,              \* control loop: position and its local copy msg
    \* ---- the robot behind the facades
    arm_ee_pose, arm_waist,    \* arm.get_ee_pose_command(), waist joint command
    cam_positions,             \* camera.get_joint_commands(): <<pan, tilt>>
    \* ---- observation
    cb_calls,                  \* facade calls made by the last joy_control_cb
    tick_calls,                \* calls and marked statements of __init__, then of the last controller()
    T_yb_tick,                 \* T_yb at the start of the last controller()
    published, prev_published, \* the last and the last but one message delivered
    pubs_since_tick,           \* publishes completed since the last controller() ended (at most 2)
    prev_tick,                 \* what the controller() before the last one did
    profile,                   \* the profile selected by the last toggle code (0: none yet)
    toggles,                   \* run of alternating toggle-only messages just handled
    unlocked                   \* per attribute, the threads that used it without holding joy_mutex

vars == << use_base, arm_model, num_joints, waist_ll, waist_ul, current_loop_rate,
           rate_is_float, loop_rates, rate, current_gripper_pressure, joy_msg,
           joy_mutex, T_sy, T_yb, cb_pc, cb_msg, ctrl_pc, msg, arm_ee_pose,
           arm_waist, cam_positions, cb_calls, tick_calls, T_yb_tick, published,
           prev_published, pubs_since_tick, prev_tick, profile, toggles,
           unlocked >>

config_vars == << use_base, arm_model, num_joints, waist_ll, waist_ul >>
rate_vars   == << current_loop_rate, rate_is_float, loop_rates, rate >>
frame_vars  == << T_sy, T_yb >>
robot_vars  == << arm_ee_pose, arm_waist, cam_positions >>
rate_obs    == << profile, toggles >>
tick_obs    == << tick_calls, T_yb_tick, prev_tick >>
pub_obs     == << published, prev_published, pubs_since_tick >>

-----------------------------------------------------------------------------
(* Class attributes of XSLocobotRobot and the literals of its conditions.  *)

waist_step == 6
InitLoopRate == 25
rotate_step == 4
translate_step == 1
gripper_pressure_step == 1
InitGripperPressure == 4
InitCoarseRate == 25
InitFineRate == 25
MaxLoopRate == 40
MinLoopRate == 10
MaxGripperPressure == 8
MinGripperPressure == 0
MinYEditX == 30
MinJointsForY == 6

(* LocobotJoy codes.  0 is "no command" in every field.                    *)
SPEED_INC == 1
SPEED_DEC == 2
SPEED_COARSE == 1
SPEED_FINE == 2
RESET_ODOM == 1
GRIPPER_RELEASE == 1
GRIPPER_GRASP == 2
GRIPPER_PWM_INC == 1
GRIPPER_PWM_DEC == 2
PAN_CCW == 1
PAN_CW == 2
TILT_UP == 1
TILT_DOWN == 2
PAN_TILT_HOME == 3
HOME_POSE == 1
SLEEP_POSE == 2
WAIST_CCW == 1
WAIST_CW == 2
EE_X_INC == 1
EE_X_DEC == 2
EE_Y_INC == 1
EE_Y_DEC == 2
EE_Z_INC == 1
EE_Z_DEC == 2
EE_ROLL_CCW == 1
EE_ROLL_CW == 2
EE_PITCH_UP == 1
EE_PITCH_DOWN == 2

(* LocobotJoy(): every field zero.                                         *)
LocobotJoy ==
    [ speed_cmd |-> 0, speed_toggle_cmd |-> 0, base_reset_odom_cmd |-> 0,
      gripper_cmd |-> 0, gripper_pwm_cmd |-> 0, pan_cmd |-> 0, tilt_cmd |-> 0,
      pose_cmd |-> 0, waist_cmd |-> 0, base_x_cmd |-> 0, base_theta_cmd |-> 0,
      ee_x_cmd |-> 0, ee_y_cmd |-> 0, ee_z_cmd |-> 0, ee_roll_cmd |-> 0,
      ee_pitch_cmd |-> 0 ]

-----------------------------------------------------------------------------
(* Bounds of the model: the robot the facades stand for.                   *)

WaistLimit == 8       \* waist joint limits are -WaistLimit and +WaistLimit
CamLimit == 6         \* pan and tilt limits are -CamLimit and +CamLimit
Reach == 2            \* the arm reaches poses within Reach steps of its home pose
MaxBaseCmd == 1       \* base_x_cmd, base_theta_cmd range over 0..MaxBaseCmd


-----------------------------------------------------------------------------
(* A facade call as recorded in cb_calls and tick_calls.                   *)
Call(op, arg, ok) == [ op |-> op, arg |-> arg, ok |-> ok ]

(* The attributes joy_control_cb reads and writes, as one record: the      *)
(* callback's statements are functions from such a record to the next.     *)
(* raised: an exception has left the callback; no later statement runs.    *)
CbState ==
    [ current_loop_rate |-> current_loop_rate,
      rate_is_float |-> rate_is_float,
      loop_rates |-> loop_rates,
      rate |-> rate,
      current_gripper_pressure |-> current_gripper_pressure,
      calls |-> << >>,
      raised |-> FALSE ]

(* update_speed(loop_rate): the attribute and the Rate object are set,     *)
(* then the f-string formats the rate with ':0d', which raises ValueError  *)
(* for a float.  is_float is the Python type of the argument.              *)
update_speed(st, loop_rate, is_float) ==
    [ st EXCEPT !.current_loop_rate = loop_rate,
                !.rate_is_float = [ @ EXCEPT !.current = is_float ],
                !.rate = loop_rate,
                !.calls = Append(@, Call("create_rate", loop_rate, TRUE)),
                !.raised = is_float ]

(* update_gripper_pressure(gripper_pressure)                               *)
update_gripper_pressure(st, gripper_pressure) ==
    [ st EXCEPT !.current_gripper_pressure = gripper_pressure,
                !.calls = Append(@, Call("set_pressure", gripper_pressure, TRUE)) ]

(* joy_control_cb, "Check the speed_cmd"                                   *)
(* SpeedIncGuard with <= for <                                             *)
SpeedIncGuardLe(st) == st.current_loop_rate <= MaxLoopRate
SpeedIncGuard(st) == st.current_loop_rate < MaxLoopRate
SpeedDecGuard(st) == st.current_loop_rate > MinLoopRate

CheckSpeedCmd(st, m) ==
    IF m.speed_cmd = SPEED_INC /\ SpeedIncGuard(st)
    THEN update_speed(st, st.current_loop_rate + 1, st.rate_is_float.current)
    ELSE IF m.speed_cmd = SPEED_DEC /\ SpeedDecGuard(st)
    THEN update_speed(st, st.current_loop_rate - 1, st.rate_is_float.current)
    ELSE st

(* joy_control_cb, "Check the speed_toggle_cmd"                            *)
(* SwitchToCoarse without the store into loop_rates['fine']                *)
SwitchToCoarseNoStore(st) ==
    update_speed(st, st.loop_rates.coarse, st.rate_is_float.coarse)

SwitchToCoarse(st) ==
    LET st1 == [ st EXCEPT !.loop_rates.fine = st.current_loop_rate,
                           !.rate_is_float.fine = st.rate_is_float.current ]
    IN  update_speed(st1, st1.loop_rates.coarse, st1.rate_is_float.coarse)

SwitchToFine(st) ==
    LET st1 == [ st EXCEPT !.loop_rates.coarse = st.current_loop_rate,
                           !.rate_is_float.coarse = st.rate_is_float.current ]
    IN  update_speed(st1, st1.loop_rates.fine, st1.rate_is_float.fine)

CheckSpeedToggleCmd(st, m) ==
    IF st.raised THEN st
    ELSE IF m.speed_toggle_cmd = SPEED_COARSE THEN SwitchToCoarse(st)
    ELSE IF m.speed_toggle_cmd = SPEED_FINE THEN SwitchToFine(st)
    ELSE st

(* joy_control_cb, "check base_reset_odom_cmd"; and the same doing nothing *)
CheckResetOdomCmdSkip(st, m) == st
CheckResetOdomCmd(st, m) ==
    IF st.raised THEN st
    ELSE IF m.base_reset_odom_cmd = RESET_ODOM /\ use_base
    THEN [ st EXCEPT !.calls = Append(@, Call("reset_odom", 0, TRUE)) ]
    ELSE st

(* joy_control_cb, "Check the gripper_cmd"                                 *)
CheckGripperCmd(st, m) ==
    IF st.raised \/ arm_model = "none" THEN st
    ELSE IF m.gripper_cmd = GRIPPER_RELEASE
    THEN [ st EXCEPT !.calls = Append(@, Call("release", 0, TRUE)) ]
    ELSE IF m.gripper_cmd = GRIPPER_GRASP
    THEN [ st EXCEPT !.calls = Append(@, Call("grasp", 0, TRUE)) ]
    ELSE st

(* joy_control_cb, "Check the gripper_pwm_cmd"                             *)
(* PwmIncGuard with <= for <                                               *)
PwmIncGuardLe(st) == st.current_gripper_pressure <= MaxGripperPressure
PwmIncGuard(st) == st.current_gripper_pressure < MaxGripperPressure
PwmDecGuard(st) == st.current_gripper_pressure > MinGripperPressure

CheckGripperPwmCmd(st, m) ==
    IF st.raised \/ arm_model = "none" THEN st
    ELSE IF m.gripper_pwm_cmd = GRIPPER_PWM_INC /\ PwmIncGuard(st)
    THEN update_gripper_pressure(st, st.current_gripper_pressure + gripper_pressure_step)
    ELSE IF m.gripper_pwm_cmd = GRIPPER_PWM_DEC /\ PwmDecGuard(st)
    THEN update_gripper_pressure(st, st.current_gripper_pressure - gripper_pressure_step)
    ELSE st

(* joy_control_cb after the with-block: every check, in the code's order.  *)
ProcessJoy(st, m) ==
    CheckGripperPwmCmd(
        CheckGripperCmd(
            CheckResetOdomCmd(
                CheckSpeedToggleCmd(
                    CheckSpeedCmd(st, m), m), m), m), m)

(* "with self.joy_mutex: self.joy_msg = copy.deepcopy(msg)": the held      *)
(* message is replaced by a copy of the one delivered.                     *)
(* StoreJoy keeping the held code wherever the new message has none        *)
StoreJoyMerge(held, m) ==
    [ f \in DOMAIN m |-> IF m[f] # 0 THEN m[f] ELSE held[f] ]

StoreJoy(held, m) == m

-----------------------------------------------------------------------------
(* Transforms (see the head of the module).                                *)
Identity == [ yaw |-> 0, x |-> 0, y |-> 0, z |-> 0, roll |-> 0, pitch |-> 0 ]

(* ang.rotation_matrix_to_euler_angles(T[:3, :3]): <<roll, pitch, yaw>>    *)
rotation_matrix_to_euler_angles(T) == << T.roll, T.pitch, T.yaw >>

(* T[:3, :3] = ang.euler_angles_to_rotation_matrix(rpy)                    *)
euler_angles_to_rotation_matrix(T, rpy) ==
    [ T EXCEPT !.roll = rpy[1], !.pitch = rpy[2], !.yaw = rpy[3] ]

(* T[:2, :2] = ang.yaw_to_rotation_matrix(yaw): only the yaw block of T    *)
(* is overwritten.  T_sy starts as the identity, so it stays a pure yaw.   *)
yaw_to_rotation_matrix(T, yaw) == [ T EXCEPT !.yaw = yaw ]

(* ang.trans_inv(T) of a pure yaw rotation T; and T itself in its place    *)
trans_invNone(T) == T
trans_inv(T) == [ T EXCEPT !.yaw = -T.yaw ]

(* np.dot(A, B) with A a pure yaw rotation: Rz(a) Rz(b) L = Rz(a + b) L    *)
dot(A, B) == [ B EXCEPT !.yaw = A.yaw + B.yaw ]

-----------------------------------------------------------------------------
(* The robot behind the facades.                                           *)

(* arm.go_to_home_pose / arm.go_to_sleep_pose: the commanded pose after.   *)
HomePose == [ Identity EXCEPT !.x = MinYEditX + 1 ]
SleepPose == [ Identity EXCEPT !.x = MinYEditX - 1 ]

Abs(n) == IF n < 0 THEN -n ELSE n

(* arm.set_ee_pose_matrix finds a solution only for a pose within reach;   *)
(* within reach it may still fail.                                         *)
Reachable(T) ==
    /\ Abs(T.x - MinYEditX) <= Reach * translate_step
    /\ Abs(T.y) <= Reach * translate_step
    /\ Abs(T.z) <= Reach * translate_step
    /\ Abs(T.roll) <= Reach * rotate_step
    /\ Abs(T.pitch) <= Reach * rotate_step

(* arm.set_single_joint_position rejects a position outside the limits.    *)
WithinWaistLimits(position) == waist_ll <= position /\ position <= waist_ul

(* camera.pan_tilt_move moves only to positions within the limits.         *)
WithinCamLimits(pos) == Abs(pos[1]) <= CamLimit /\ Abs(pos[2]) <= CamLimit

-----------------------------------------------------------------------------
(* controller(): the attributes and the robot state it reads and writes,   *)
(* as one record.  returned: a return statement has been executed.         *)
CtrlState ==
    [ T_sy |-> T_sy, T_yb |-> T_yb,
      ee_pose |-> arm_ee_pose, waist |-> arm_waist, cam |-> cam_positions,
      calls |-> << >>, returned |-> FALSE ]

Log(ct, op, arg, ok) == [ ct EXCEPT !.calls = Append(@, Call(op, arg, ok)) ]

(* update_T_yb()                                                           *)
update_T_yb(ct) ==
    LET T_sb == ct.ee_pose
        rpy == rotation_matrix_to_euler_angles(T_sb)
        Tsy == yaw_to_rotation_matrix(ct.T_sy, rpy[3])
    IN  [ Log(ct, "update_T_yb", 0, TRUE) EXCEPT
              !.T_sy = Tsy,
              !.T_yb = dot(trans_inv(Tsy), T_sb) ]

(* the same with the reset taken when either code is the home sentinel     *)
CameraDispatchHomeEither(ct, m) ==
    IF m.pan_cmd = PAN_TILT_HOME \/ m.tilt_cmd = PAN_TILT_HOME
    THEN [ Log(ct, "pan_tilt_go_home", 0, TRUE) EXCEPT !.cam = << 0, 0 >> ]
    ELSE IF m.pan_cmd # 0 \/ m.tilt_cmd # 0
    THEN LET c0 == ct.cam
             pan == IF m.pan_cmd = PAN_CCW THEN c0[1] + waist_step
                    ELSE IF m.pan_cmd = PAN_CW THEN c0[1] - waist_step
                    ELSE c0[1]
             tilt == IF m.tilt_cmd = TILT_UP THEN c0[2] + waist_step
                     ELSE IF m.tilt_cmd = TILT_DOWN THEN c0[2] - waist_step
                     ELSE c0[2]
             ok == WithinCamLimits(<< pan, tilt >>)
         IN  [ Log(Log(ct, "get_joint_commands", c0, TRUE),
                   "pan_tilt_move", << pan, tilt >>, ok) EXCEPT
                   !.cam = IF ok THEN << pan, tilt >> ELSE c0 ]
    ELSE ct

(* "check if the pan-and-tilt mechanism should be reset / rotated"         *)
CameraDispatch(ct, m) ==
    IF m.pan_cmd = PAN_TILT_HOME /\ m.tilt_cmd = PAN_TILT_HOME
    THEN [ Log(ct, "pan_tilt_go_home", 0, TRUE) EXCEPT !.cam = << 0, 0 >> ]
    ELSE IF m.pan_cmd # 0 \/ m.tilt_cmd # 0
    THEN LET c0 == ct.cam
             pan == IF m.pan_cmd = PAN_CCW THEN c0[1] + waist_step
                    ELSE IF m.pan_cmd = PAN_CW THEN c0[1] - waist_step
                    ELSE c0[1]
             tilt == IF m.tilt_cmd = TILT_UP THEN c0[2] + waist_step
                     ELSE IF m.tilt_cmd = TILT_DOWN THEN c0[2] - waist_step
                     ELSE c0[2]
             ok == WithinCamLimits(<< pan, tilt >>)
         IN  [ Log(Log(ct, "get_joint_commands", c0, TRUE),
                   "pan_tilt_move", << pan, tilt >>, ok) EXCEPT
                   !.cam = IF ok THEN << pan, tilt >> ELSE c0 ]
    ELSE ct

(* the same with no command for zero velocities                            *)
BaseDispatchSkipZero(ct, m) ==
    IF use_base /\ (m.base_x_cmd # 0 \/ m.base_theta_cmd # 0)
    THEN Log(ct, "command_velocity_xyaw", << m.base_x_cmd, m.base_theta_cmd >>, TRUE)
    ELSE ct

(* "check mobile base related commands"                                    *)
BaseDispatch(ct, m) ==
    IF use_base
    THEN Log(ct, "command_velocity_xyaw", << m.base_x_cmd, m.base_theta_cmd >>, TRUE)
    ELSE ct

(* "if self.arm_model is None: return"; and the same never returning       *)
ArmGuardNever(ct) == ct
ArmGuard(ct) == IF arm_model = "none" THEN [ ct EXCEPT !.returned = TRUE ] ELSE ct

(* "Check the pose_cmd", and the same without its update_T_yb()            *)
PoseDispatchNoUpdate(ct, m) ==
    IF ct.returned \/ m.pose_cmd = 0 THEN ct
    ELSE IF m.pose_cmd = HOME_POSE
    THEN [ Log(ct, "go_to_home_pose", 0, TRUE) EXCEPT !.ee_pose = HomePose, !.waist = 0 ]
    ELSE IF m.pose_cmd = SLEEP_POSE
    THEN [ Log(ct, "go_to_sleep_pose", 0, TRUE) EXCEPT !.ee_pose = SleepPose, !.waist = 0 ]
    ELSE ct

PoseDispatch(ct, m) ==
    IF ct.returned \/ m.pose_cmd = 0 THEN ct
    ELSE LET c1 == IF m.pose_cmd = HOME_POSE
                   THEN [ Log(ct, "go_to_home_pose", 0, TRUE) EXCEPT
                              !.ee_pose = HomePose, !.waist = 0 ]
                   ELSE IF m.pose_cmd = SLEEP_POSE
                   THEN [ Log(ct, "go_to_sleep_pose", 0, TRUE) EXCEPT
                              !.ee_pose = SleepPose, !.waist = 0 ]
                   ELSE ct
         IN  update_T_yb(c1)

(* arm.set_single_joint_position('waist', position): accepted only if the  *)
(* robot accepts (may) and the position is within the limits; an accepted  *)
(* move turns the whole arm, and with it the commanded pose, about z.      *)
SetWaist(ct, position, may) ==
    LET ok == may /\ WithinWaistLimits(position)
        c1 == Log(ct, "set_single_joint_position", position, ok)
    IN  IF ok
        THEN [ c1 EXCEPT !.waist = position,
                         !.ee_pose.yaw = @ + (position - ct.waist) ]
        ELSE c1

(* the condition of the second set_single_joint_position; and the same     *)
(* without the test of the current position against the limit              *)
WaistFallbackAlways(success, waist_position, limit) == ~success

WaistFallback(success, waist_position, limit) ==
    ~success /\ waist_position # limit

(* "Check the waist_cmd" with the recompute left out when the first        *)
(* request was rejected                                                    *)
WaistDispatchRecomputeOnSuccess(ct, m, may1, may2) ==
    IF ct.returned \/ m.waist_cmd = 0 THEN ct
    ELSE LET waist_position == ct.waist
             dir == IF m.waist_cmd = WAIST_CCW THEN 1
                    ELSE IF m.waist_cmd = WAIST_CW THEN -1 ELSE 0
             limit == IF dir = 1 THEN waist_ul ELSE waist_ll
             c0 == Log(ct, "get_single_joint_command", waist_position, TRUE)
             c1 == IF dir = 0 THEN c0
                   ELSE SetWaist(c0, waist_position + dir * waist_step, may1)
             success == dir # 0 /\ c1.waist # waist_position
             c2 == IF dir # 0 /\ WaistFallback(success, waist_position, limit)
                   THEN SetWaist(c1, limit, may2)
                   ELSE c1
         IN  IF success THEN update_T_yb(c2) ELSE c2

(* "Check the waist_cmd"; may1, may2: whether the robot accepts the first  *)
(* and the second request.                                                 *)
WaistDispatch(ct, m, may1, may2) ==
    IF ct.returned \/ m.waist_cmd = 0 THEN ct
    ELSE LET waist_position == ct.waist
             dir == IF m.waist_cmd = WAIST_CCW THEN 1
                    ELSE IF m.waist_cmd = WAIST_CW THEN -1 ELSE 0
             limit == IF dir = 1 THEN waist_ul ELSE waist_ll
             c0 == Log(ct, "get_single_joint_command", waist_position, TRUE)
             c1 == IF dir = 0 THEN c0
                   ELSE SetWaist(c0, waist_position + dir * waist_step, may1)
             success == dir # 0 /\ c1.waist # waist_position
             c2 == IF dir # 0 /\ WaistFallback(success, waist_position, limit)
                   THEN SetWaist(c1, limit, may2)
                   ELSE c1
         IN  update_T_yb(c2)

(* position_changed with ee_y_cmd counted for every arm                    *)
position_changedAnyArm(m) == m.ee_x_cmd + m.ee_z_cmd + m.ee_y_cmd

(* position_changed, orientation_changed                                   *)
position_changed(m) ==
    m.ee_x_cmd + m.ee_z_cmd + (IF num_joints >= MinJointsForY THEN m.ee_y_cmd ELSE 0)

orientation_changed(m) == m.ee_roll_cmd + m.ee_pitch_cmd

(* the guard of both branches of "check ee_y_cmd"; and the same with >=    *)
(* for >                                                                   *)
YEditGuardGe(T) == num_joints >= MinJointsForY /\ T.x >= MinYEditX
YEditGuard(T) == num_joints >= MinJointsForY /\ T.x > MinYEditX

(* the working copy T_yb after the "if (position_changed)" block           *)
EditPosition(T, m) ==
    IF position_changed(m) = 0 THEN T
    ELSE LET T1 == IF m.ee_x_cmd = EE_X_INC THEN [ T EXCEPT !.x = @ + translate_step ]
                   ELSE IF m.ee_x_cmd = EE_X_DEC THEN [ T EXCEPT !.x = @ - translate_step ]
                   ELSE T
             T2 == IF m.ee_y_cmd = EE_Y_INC /\ YEditGuard(T1)
                   THEN [ T1 EXCEPT !.y = @ + translate_step ]
                   ELSE IF m.ee_y_cmd = EE_Y_DEC /\ YEditGuard(T1)
                   THEN [ T1 EXCEPT !.y = @ - translate_step ]
                   ELSE T1
         IN  IF m.ee_z_cmd = EE_Z_INC THEN [ T2 EXCEPT !.z = @ + translate_step ]
             ELSE IF m.ee_z_cmd = EE_Z_DEC THEN [ T2 EXCEPT !.z = @ - translate_step ]
             ELSE T2

(* the working copy after the "if (orientation_changed != 0)" block        *)
EditOrientation(T, m) ==
    IF orientation_changed(m) = 0 THEN T
    ELSE LET rpy == rotation_matrix_to_euler_angles(T)
             roll == IF m.ee_roll_cmd = EE_ROLL_CCW THEN rpy[1] + rotate_step
                     ELSE IF m.ee_roll_cmd = EE_ROLL_CW THEN rpy[1] - rotate_step
                     ELSE rpy[1]
             pitch == IF m.ee_pitch_cmd = EE_PITCH_DOWN THEN rpy[2] + rotate_step
                      ELSE IF m.ee_pitch_cmd = EE_PITCH_UP THEN rpy[2] - rotate_step
                      ELSE rpy[2]
         IN  euler_angles_to_rotation_matrix(T, << roll, pitch, rpy[3] >>)

(* the working copy handed to the inverse kinematics                       *)
WorkingCopy(T, m) == EditOrientation(EditPosition(T, m), m)

(* "if (success): self.T_yb = np.array(T_yb)"; and the same without the    *)
(* condition                                                               *)
CommitAlways(old, working, success) == working
Commit(old, working, success) == IF success THEN working ELSE old

(* the incremental edit, from position_changed on; may: whether the robot  *)
(* finds a solution for a pose within reach.  EditDispatchRecompute is the *)
(* same followed by update_T_yb() after a commit.                          *)
EditDispatchRecompute(ct, m, may) ==
    IF ct.returned \/ position_changed(m) + orientation_changed(m) = 0 THEN ct
    ELSE LET working == WorkingCopy(ct.T_yb, m)
             T_sd == dot(ct.T_sy, working)
             success == may /\ Reachable(T_sd)
             c1 == Log(Log(ct, "copy_T_yb", ct.T_yb, TRUE),
                       "set_ee_pose_matrix", T_sd, success)
             c2 == [ c1 EXCEPT !.T_yb = Commit(ct.T_yb, working, success),
                               !.ee_pose = IF success THEN T_sd ELSE @ ]
         IN  IF success THEN update_T_yb(c2) ELSE c2

EditDispatch(ct, m, may) ==
    IF ct.returned \/ position_changed(m) + orientation_changed(m) = 0 THEN ct
    ELSE LET working == WorkingCopy(ct.T_yb, m)
             T_sd == dot(ct.T_sy, working)
             success == may /\ Reachable(T_sd)
             c1 == Log(Log(ct, "copy_T_yb", ct.T_yb, TRUE),
                       "set_ee_pose_matrix", T_sd, success)
         IN  [ c1 EXCEPT !.T_yb = Commit(ct.T_yb, working, success),
                         !.ee_pose = IF success THEN T_sd ELSE @ ]

(* controller() after the with-block, on the local copy m.                 *)
Dispatch(ct, m, may1, may2, may3) ==
    EditDispatch(
        WaistDispatch(
            PoseDispatch(
                ArmGuard(BaseDispatch(CameraDispatch(ct, m), m)),
                m),
            m, may1, may2),
        m, may3)

-----------------------------------------------------------------------------
(* Observation of the rate profiles (history, not program state).          *)

IsToggleOnly(m) == m.speed_cmd = 0 /\ m.speed_toggle_cmd # 0

(* toggles: n = length (0, 1, 2) of the run of toggle-only messages with   *)
(* alternating codes that ends with the last message; before0 / before1 =  *)
(* the loop rate before the first / the last message of that run.          *)
NoToggles == [ n |-> 0, last |-> 0, before0 |-> 0, before1 |-> 0 ]

ObserveToggles(t, m, before) ==
    IF ~IsToggleOnly(m) THEN NoToggles
    ELSE IF t.n >= 1 /\ t.last # m.speed_toggle_cmd
    THEN [ n |-> 2, last |-> m.speed_toggle_cmd, before0 |-> t.before1, before1 |-> before ]
    ELSE [ n |-> 1, last |-> m.speed_toggle_cmd, before0 |-> before, before1 |-> before ]

(* profile: the code of the last toggle branch that ran                    *)
ObserveRates(m) ==
    /\ profile' = IF m.speed_toggle_cmd # 0 /\ ~CheckSpeedCmd(CbState, m).raised
                  THEN m.speed_toggle_cmd ELSE profile
    /\ toggles' = ObserveToggles(toggles, m, current_loop_rate)

ObservePublish(m) ==
    /\ prev_published' = published
    /\ published' = m
    /\ pubs_since_tick' = IF pubs_since_tick < 2 THEN pubs_since_tick + 1 ELSE 2

IkResult(calls) ==
    IF \E i \in 1..Len(calls) : calls[i].op = "set_ee_pose_matrix" /\ calls[i].ok
    THEN "ok"
    ELSE IF \E i \in 1..Len(calls) : calls[i].op = "set_ee_pose_matrix"
    THEN "fail" ELSE "none"

(* prev_tick.what: "none" until the first controller(), "init" while the   *)
(* handler before the last is __init__, "tick" afterwards.                 *)
(* msg, ik, T_yb: its local copy msg, the result of its inverse-kinematics *)
(* request, and T_yb when it started.                                      *)
NoTick == [ what |-> "none", ik |-> "none", msg |-> LocobotJoy, T_yb |-> Identity ]

ObserveTick(ct) ==
    /\ tick_calls' = ct.calls
    /\ T_yb_tick' = T_yb
    /\ prev_tick' = [ what |-> IF prev_tick.what = "none" THEN "init" ELSE "tick",
                      ik |-> IkResult(tick_calls), msg |-> msg,
                      T_yb |-> T_yb_tick ]

(* Observation of the attributes each thread uses.  "cb" is the thread     *)
(* that runs the subscription callback, "ctrl" the one that runs the loop  *)
(* of start_robot.                                                         *)
Attributes ==
    { "joy_msg", "current_loop_rate", "rate", "loop_rates", "current_gripper_pressure" }

NoAccess == [ a \in Attributes |-> {} ]

(* the attributes joy_control_cb reads or writes after its with-block,     *)
(* given the message: the conditions are evaluated left to right and stop  *)
(* at the first false conjunct                                             *)
CbAccesses(st, m) ==
    LET s1 == CheckSpeedCmd(st, m)
        s2 == CheckSpeedToggleCmd(s1, m)
        toggled == ~s1.raised /\ m.speed_toggle_cmd \in {SPEED_COARSE, SPEED_FINE}
    IN  (IF m.speed_cmd \in {SPEED_INC, SPEED_DEC} \/ toggled
         THEN {"current_loop_rate"} ELSE {})
        \cup (IF s2.calls # << >> THEN {"rate"} ELSE {})
        \cup (IF toggled THEN {"loop_rates"} ELSE {})
        \cup (IF ~s2.raised /\ arm_model # "none"
                  /\ m.gripper_pwm_cmd \in {GRIPPER_PWM_INC, GRIPPER_PWM_DEC}
               THEN {"current_gripper_pressure"} ELSE {})

ObserveAccess(thread, attrs) ==
    unlocked' = [ a \in Attributes |->
                    IF a \in attrs /\ joy_mutex # thread
                    THEN unlocked[a] \cup {thread} ELSE unlocked[a] ]

-----------------------------------------------------------------------------
(* The effects of the two handlers on the program's variables.             *)

CbEffects(st) ==
    /\ current_loop_rate' = st.current_loop_rate
    /\ rate_is_float' = st.rate_is_float
    /\ loop_rates' = st.loop_rates
    /\ rate' = st.rate
    /\ current_gripper_pressure' = st.current_gripper_pressure
    /\ cb_calls' = st.calls
    \* an exception leaves the callback and ends the thread that spins it
    /\ cb_pc' = IF st.raised THEN "dead" ELSE "idle"

CtrlEffects(ct) ==
    /\ T_sy' = ct.T_sy
    /\ T_yb' = ct.T_yb
    /\ arm_ee_pose' = ct.ee_pose
    /\ arm_waist' = ct.waist
    /\ cam_positions' = ct.cam
    /\ ObserveTick(ct)

(* joy_control_cb(m), run to completion in one step.                       *)
joy_control_cb(m) ==
    /\ cb_pc = "idle" /\ joy_mutex = "free"
    /\ joy_msg' = StoreJoy(joy_msg, m)
    /\ cb_msg' = m
    /\ CbEffects(ProcessJoy(CbState, m))
    /\ UNCHANGED << config_vars, unlocked, joy_mutex, frame_vars, ctrl_pc, msg, robot_vars,
                    tick_obs >>

(* controller(), run to completion in one step, followed by rate.sleep().  *)
controller ==
    /\ ctrl_pc = "sleep" /\ joy_mutex = "free"
    /\ msg' = joy_msg
    /\ \E may1, may2, may3 \in BOOLEAN :
           CtrlEffects(Dispatch(CtrlState, joy_msg, may1, may2, may3))
    /\ pubs_since_tick' = 0
    /\ UNCHANGED << config_vars, unlocked, rate_vars, current_gripper_pressure, joy_msg,
                    joy_mutex, cb_pc, cb_msg, ctrl_pc, cb_calls, published,
                    prev_published, rate_obs >>

-----------------------------------------------------------------------------
(* The same handlers statement by statement, for the interleavings of the  *)
(* callback thread and the control loop.                                   *)

Arrive(m) ==
    /\ cb_pc = "idle"
    /\ cb_pc' = "lock" /\ cb_msg' = m
    /\ UNCHANGED << config_vars, unlocked, rate_vars, current_gripper_pressure, joy_msg,
                    joy_mutex, frame_vars, ctrl_pc, msg, robot_vars, cb_calls,
                    tick_obs, pub_obs, rate_obs >>

CbAcquire ==
    /\ cb_pc = "lock" /\ joy_mutex = "free"
    /\ joy_mutex' = "cb" /\ cb_pc' = "store"
    /\ UNCHANGED << config_vars, unlocked, rate_vars, current_gripper_pressure, joy_msg,
                    frame_vars, cb_msg, ctrl_pc, msg, robot_vars, cb_calls,
                    tick_obs, pub_obs, rate_obs >>

CbStore ==
    /\ cb_pc = "store"
    /\ joy_msg' = StoreJoy(joy_msg, cb_msg)
    /\ cb_pc' = "unlock"
    /\ ObservePublish(cb_msg)
    /\ ObserveAccess("cb", {"joy_msg"})
    /\ UNCHANGED << config_vars, rate_vars, current_gripper_pressure, joy_mutex,
                    frame_vars, cb_msg, ctrl_pc, msg, robot_vars, cb_calls,
                    tick_obs, rate_obs >>

CbRelease ==
    /\ cb_pc = "unlock"
    /\ joy_mutex' = "free" /\ cb_pc' = "process"
    /\ UNCHANGED << config_vars, unlocked, rate_vars, current_gripper_pressure, joy_msg,
                    frame_vars, cb_msg, ctrl_pc, msg, robot_vars, cb_calls,
                    tick_obs, pub_obs, rate_obs >>

CbProcess ==
    /\ cb_pc = "process"
    /\ CbEffects(ProcessJoy(CbState, cb_msg))
    /\ ObserveRates(cb_msg)
    /\ ObserveAccess("cb", CbAccesses(CbState, cb_msg))
    /\ UNCHANGED << config_vars, joy_msg, joy_mutex, frame_vars, cb_msg, ctrl_pc,
                    msg, robot_vars, tick_obs, pub_obs >>

CtrlAcquire ==
    /\ ctrl_pc = "sleep" /\ joy_mutex = "free"
    /\ joy_mutex' = "ctrl" /\ ctrl_pc' = "copy"
    /\ UNCHANGED << config_vars, unlocked, rate_vars, current_gripper_pressure, joy_msg,
                    frame_vars, cb_pc, cb_msg, msg, robot_vars, cb_calls,
                    tick_obs, pub_obs, rate_obs >>

CtrlCopy ==
    /\ ctrl_pc = "copy"
    /\ msg' = joy_msg
    /\ ctrl_pc' = "unlock"
    /\ ObserveAccess("ctrl", {"joy_msg"})
    /\ UNCHANGED << config_vars, rate_vars, current_gripper_pressure, joy_msg,
                    joy_mutex, frame_vars, cb_pc, cb_msg, robot_vars, cb_calls,
                    tick_obs, pub_obs, rate_obs >>

CtrlReleaseKeep ==
    /\ ctrl_pc = "unlock"
    /\ ctrl_pc' = "dispatch"
    /\ UNCHANGED << config_vars, unlocked, rate_vars, current_gripper_pressure, joy_msg,
                    joy_mutex, frame_vars, cb_pc, cb_msg, msg, robot_vars, cb_calls,
                    tick_obs, pub_obs, rate_obs >>

CtrlRelease ==
    /\ ctrl_pc = "unlock"
    /\ joy_mutex' = "free" /\ ctrl_pc' = "dispatch"
    /\ UNCHANGED << config_vars, unlocked, rate_vars, current_gripper_pressure, joy_msg,
                    frame_vars, cb_pc, cb_msg, msg, robot_vars, cb_calls,
                    tick_obs, pub_obs, rate_obs >>

CtrlDispatch ==
    /\ ctrl_pc = "dispatch"
    /\ \E may1, may2, may3 \in BOOLEAN :
           CtrlEffects(Dispatch(CtrlState, msg, may1, may2, may3))
    /\ ctrl_pc' = "sleep"
    /\ ObserveAccess("ctrl", {"rate"})      \* self.rate.sleep()
    /\ pubs_since_tick' = 0
    /\ UNCHANGED << config_vars, rate_vars, current_gripper_pressure, joy_msg,
                    joy_mutex, cb_pc, cb_msg, msg, cb_calls, published,
                    prev_published, rate_obs >>

-----------------------------------------------------------------------------
(* State after construction (__init__).                                    *)
Rates0 == [ coarse |-> InitCoarseRate, fine |-> InitFineRate ]

(* T_sy = T_yb = identity, then update_T_yb(), when there is an arm        *)
Frames0(pose) ==
    update_T_yb([ T_sy |-> Identity, T_yb |-> Identity, ee_pose |-> pose,
                  waist |-> 0, cam |-> << 0, 0 >>, calls |-> << >>,
                  returned |-> FALSE ])

InitWith(bases, arms, joints, poses) ==
    /\ use_base \in bases
    /\ arm_model \in arms
    /\ num_joints \in joints
    /\ waist_ll = -WaistLimit /\ waist_ul = WaistLimit
    /\ current_loop_rate = InitLoopRate
    /\ rate_is_float = [ current |-> TRUE, coarse |-> FALSE, fine |-> FALSE ]
    /\ loop_rates = Rates0
    /\ rate = InitLoopRate
    /\ current_gripper_pressure = InitGripperPressure
    /\ joy_msg = LocobotJoy
    /\ joy_mutex = "free"
    /\ arm_ee_pose \in poses /\ arm_waist = 0
    /\ T_sy = IF arm_model = "none" THEN Identity ELSE Frames0(arm_ee_pose).T_sy
    /\ T_yb = IF arm_model = "none" THEN Identity ELSE Frames0(arm_ee_pose).T_yb
    /\ tick_calls = IF arm_model = "none" THEN << >> ELSE Frames0(arm_ee_pose).calls
    /\ cb_pc = "idle" /\ cb_msg = LocobotJoy
    /\ ctrl_pc = "sleep" /\ msg = LocobotJoy
    /\ cam_positions = << 0, 0 >>
    /\ cb_calls = << >>
    /\ T_yb_tick = T_yb
    /\ prev_tick = NoTick
    /\ published = LocobotJoy /\ prev_published = LocobotJoy
    /\ pubs_since_tick = 0
    /\ profile = 0
    /\ toggles = NoToggles
    /\ unlocked = NoAccess

-----------------------------------------------------------------------------
(* SpecRate: commands that carry speed and profile codes.                  *)
RateMsgs ==
    { [ LocobotJoy EXCEPT !.speed_cmd = s, !.speed_toggle_cmd = t ] :
        s \in {0, SPEED_INC, SPEED_DEC}, t \in {0, SPEED_COARSE, SPEED_FINE} }

InitRate == InitWith({TRUE}, {"mobile_wx250s"}, {6}, {SleepPose})
NextRate ==
    \E m \in RateMsgs : joy_control_cb(m) /\ ObserveRates(m) /\ UNCHANGED pub_obs
SpecRate == InitRate /\ [][NextRate]_vars

-----------------------------------------------------------------------------
(* SpecGrip: commands that carry gripper codes.                            *)
GripMsgs ==
    { [ LocobotJoy EXCEPT !.gripper_cmd = g, !.gripper_pwm_cmd = p ] :
        g \in {0, GRIPPER_RELEASE, GRIPPER_GRASP},
        p \in {0, GRIPPER_PWM_INC, GRIPPER_PWM_DEC} }

InitGrip == InitWith({TRUE}, {"mobile_wx250s"}, {6}, {SleepPose})
NextGrip ==
    \/ \E m \in GripMsgs : joy_control_cb(m) /\ ObserveRates(m) /\ UNCHANGED pub_obs
    \/ controller
SpecGrip == InitGrip /\ [][NextGrip]_vars

(* SpecEdit: commands that carry x and y edits, for a 5- and a 6-joint arm. *)
EditMsgs ==
    { [ LocobotJoy EXCEPT !.ee_x_cmd = ex, !.ee_y_cmd = ey ] :
        ex \in {0, EE_X_INC, EE_X_DEC}, ey \in {0, EE_Y_INC, EE_Y_DEC} }

InitEdit == InitWith({FALSE}, {"mobile_px100", "mobile_wx250s"}, {5, 6},
                     {SleepPose, HomePose})
NextEdit ==
    \/ \E m \in EditMsgs : joy_control_cb(m) /\ ObserveRates(m) /\ UNCHANGED pub_obs
    \/ controller
SpecEdit == InitEdit /\ [][NextEdit]_vars

(* SpecArm: commands that carry preset, waist and x edit codes, alone and  *)
(* combined.                                                               *)
ArmMsgs ==
    { [ LocobotJoy EXCEPT !.pose_cmd = c[1], !.waist_cmd = c[2], !.ee_x_cmd = c[3] ] :
        c \in { << 0, 0, 0 >>,
                << HOME_POSE, 0, 0 >>, << SLEEP_POSE, 0, 0 >>,
                << 0, WAIST_CCW, 0 >>, << 0, WAIST_CW, 0 >>,
                << 0, 0, EE_X_INC >>, << 0, 0, EE_X_DEC >>,
                << HOME_POSE, WAIST_CCW, 0 >>, << HOME_POSE, 0, EE_X_INC >>,
                << SLEEP_POSE, 0, EE_X_INC >>, << 0, WAIST_CCW, EE_X_INC >> } }

InitArm == InitWith({FALSE}, {"mobile_wx250s"}, {6}, {SleepPose})
NextArm ==
    \/ \E m \in ArmMsgs : joy_control_cb(m) /\ ObserveRates(m) /\ UNCHANGED pub_obs
    \/ controller
SpecArm == InitArm /\ [][NextArm]_vars

(* SpecBuf: the two threads statement by statement, on base commands.      *)
BufMsgs ==
    { [ LocobotJoy EXCEPT !.base_x_cmd = bx, !.base_theta_cmd = bt ] :
        bx \in 0..MaxBaseCmd, bt \in 0..1 }

InitBuf == InitWith({TRUE}, {"mobile_wx250s"}, {6}, {SleepPose})
NextBuf ==
    \/ \E m \in BufMsgs : Arrive(m)
    \/ CbAcquire \/ CbStore \/ CbRelease \/ CbProcess
    \/ CtrlAcquire \/ CtrlCopy \/ CtrlRelease \/ CtrlDispatch
SpecBuf == InitBuf /\ [][NextBuf]_vars

(* SpecNoArm: a base-only robot, with and without base control, under      *)
(* commands that carry codes for every actuator.                           *)
NoArmMsgs ==
    { LocobotJoy,
      [ LocobotJoy EXCEPT !.gripper_cmd = GRIPPER_GRASP, !.gripper_pwm_cmd = GRIPPER_PWM_INC,
                          !.pose_cmd = HOME_POSE, !.waist_cmd = WAIST_CCW,
                          !.ee_x_cmd = EE_X_INC, !.pan_cmd = PAN_CCW,
                          !.base_x_cmd = MaxBaseCmd, !.base_reset_odom_cmd = RESET_ODOM ],
      [ LocobotJoy EXCEPT !.gripper_cmd = GRIPPER_RELEASE, !.gripper_pwm_cmd = GRIPPER_PWM_DEC,
                          !.pose_cmd = SLEEP_POSE, !.waist_cmd = WAIST_CW,
                          !.ee_y_cmd = EE_Y_INC, !.ee_roll_cmd = EE_ROLL_CCW,
                          !.tilt_cmd = TILT_DOWN, !.base_theta_cmd = 1 ],
      [ LocobotJoy EXCEPT !.gripper_pwm_cmd = GRIPPER_PWM_INC, !.ee_z_cmd = EE_Z_INC,
                          !.ee_pitch_cmd = EE_PITCH_UP,
                          !.pan_cmd = PAN_TILT_HOME, !.tilt_cmd = PAN_TILT_HOME ] }

InitNoArm == InitWith({TRUE, FALSE}, {"none"}, {0}, {Identity})
NextNoArm ==
    \/ \E m \in NoArmMsgs : joy_control_cb(m) /\ ObserveRates(m) /\ UNCHANGED pub_obs
    \/ controller
SpecNoArm == InitNoArm /\ [][NextNoArm]_vars

(* SpecShare: the two threads statement by statement, on commands that     *)
(* carry profile, odometry reset and gripper pressure codes.               *)
ShareMsgs ==
    { LocobotJoy,
      [ LocobotJoy EXCEPT !.speed_toggle_cmd = SPEED_FINE ],
      [ LocobotJoy EXCEPT !.speed_toggle_cmd = SPEED_COARSE ],
      [ LocobotJoy EXCEPT !.gripper_pwm_cmd = GRIPPER_PWM_INC,
                          !.base_reset_odom_cmd = RESET_ODOM ] }

InitShare == InitWith({TRUE}, {"mobile_wx250s"}, {6}, {SleepPose})
NextShare ==
    \/ \E m \in ShareMsgs : Arrive(m)
    \/ CbAcquire \/ CbStore \/ CbRelease \/ CbProcess
    \/ CtrlAcquire \/ CtrlCopy \/ CtrlRelease \/ CtrlDispatch
SpecShare == InitShare /\ [][NextShare]_vars

(* SpecCam: commands that carry pan and tilt codes.                         *)
CamMsgs ==
    { [ LocobotJoy EXCEPT !.pan_cmd = p, !.tilt_cmd = t ] :
        p \in {0, PAN_CCW, PAN_CW, PAN_TILT_HOME},
        t \in {0, TILT_UP, TILT_DOWN, PAN_TILT_HOME} }

InitCam == InitWith({FALSE}, {"mobile_wx250s"}, {6}, {SleepPose})
NextCam ==
    \/ \E m \in CamMsgs : joy_control_cb(m) /\ ObserveRates(m) /\ UNCHANGED pub_obs
    \/ controller
SpecCam == InitCam /\ [][NextCam]_vars

(* SpecBase: commands that carry base velocities and the odometry reset,   *)
(* and one that carries camera, preset and gripper codes besides; with and *)
(* without base control, with and without an arm.                          *)
BaseMsgs ==
    { [ LocobotJoy EXCEPT !.base_x_cmd = bx, !.base_theta_cmd = bt,
                          !.base_reset_odom_cmd = r ] :
        bx \in (-MaxBaseCmd)..MaxBaseCmd, bt \in 0..1, r \in {0, RESET_ODOM} }
    \cup
    { [ LocobotJoy EXCEPT !.base_x_cmd = MaxBaseCmd, !.base_reset_odom_cmd = RESET_ODOM,
                          !.pan_cmd = PAN_CCW, !.pose_cmd = HOME_POSE,
                          !.gripper_cmd = GRIPPER_GRASP ] }

InitBase ==
    \/ InitWith({TRUE, FALSE}, {"none"}, {0}, {Identity})
    \/ InitWith({TRUE, FALSE}, {"mobile_wx250s"}, {6}, {SleepPose})
NextBase ==
    \/ \E m \in BaseMsgs : joy_control_cb(m) /\ ObserveRates(m) /\ UNCHANGED pub_obs
    \/ controller
SpecBase == InitBase /\ [][NextBase]_vars

(* SpecElig: commands that carry the x, y, z and roll codes alone, and the *)
(* y code with the pitch code, for a 5- and a 6-joint arm.                 *)
EligMsgs ==
    { [ LocobotJoy EXCEPT !.ee_x_cmd = c[1], !.ee_y_cmd = c[2], !.ee_z_cmd = c[3],
                          !.ee_roll_cmd = c[4], !.ee_pitch_cmd = c[5] ] :
        c \in { << EE_X_INC, 0, 0, 0, 0 >>,
                << 0, EE_Y_INC, 0, 0, 0 >>,
                << 0, 0, EE_Z_INC, 0, 0 >>,
                << 0, 0, 0, EE_ROLL_CCW, 0 >>,
                << 0, EE_Y_DEC, 0, 0, EE_PITCH_DOWN >> } }

InitElig ==
    \/ InitWith({FALSE}, {"mobile_wx200"}, {5}, {HomePose})
    \/ InitWith({FALSE}, {"mobile_wx250s"}, {6}, {HomePose})
NextElig ==
    \/ \E m \in EligMsgs : joy_control_cb(m) /\ ObserveRates(m) /\ UNCHANGED pub_obs
    \/ controller
SpecElig == InitElig /\ [][NextElig]_vars

(* SpecHold: commands that carry codes dispatched by the tick (camera,     *)
(* preset, waist, edit) and codes handled by the callback (speed,          *)
(* odometry reset, gripper, pressure).                                     *)
HoldMsgs ==
    { [ LocobotJoy EXCEPT !.pose_cmd = HOME_POSE, !.pan_cmd = PAN_CCW ],
      [ LocobotJoy EXCEPT !.waist_cmd = WAIST_CCW, !.ee_x_cmd = EE_X_INC ],
      [ LocobotJoy EXCEPT !.speed_cmd = SPEED_INC, !.gripper_cmd = GRIPPER_GRASP ],
      [ LocobotJoy EXCEPT !.base_reset_odom_cmd = RESET_ODOM,
                          !.gripper_cmd = GRIPPER_RELEASE,
                          !.gripper_pwm_cmd = GRIPPER_PWM_INC ] }

InitHold == InitWith({TRUE}, {"mobile_wx250s"}, {6}, {SleepPose})
NextHold ==
    \/ \E m \in HoldMsgs : joy_control_cb(m) /\ ObserveRates(m) /\ UNCHANGED pub_obs
    \/ controller
SpecHold == InitHold /\ [][NextHold]_vars

(* SpecLive: the two threads statement by statement, each taking a step    *)
(* if it can take one from some point on.  Arrivals are up to the          *)
(* environment.  The command carries a waist and an x edit code, whose     *)
(* requests the arm may accept or reject.                                  *)
LiveMsgs ==
    { [ LocobotJoy EXCEPT !.waist_cmd = WAIST_CCW, !.ee_x_cmd = EE_X_INC ] }

CbThread == CbAcquire \/ CbStore \/ CbRelease \/ CbProcess
CtrlThread == CtrlAcquire \/ CtrlCopy \/ CtrlRelease \/ CtrlDispatch

InitLive == InitWith({FALSE}, {"mobile_wx250s"}, {6}, {SleepPose})
NextLive == (\E m \in LiveMsgs : Arrive(m)) \/ CbThread \/ CtrlThread
SpecLive ==
    InitLive /\ [][NextLive]_vars /\ WF_vars(CbThread) /\ WF_vars(CtrlThread)

-----------------------------------------------------------------------------
(* Properties.                                                             *)

RateRange == MinLoopRate..MaxLoopRate

(* C1: for every sequence of commands carrying any mix of speed_cmd and    *)
(* speed_toggle_cmd codes, from the initial rates 25 / 25 / 25, the        *)
(* current loop rate and both remembered rates stay within [10, 40].       *)
C1_RatesWithinLimits ==
    /\ current_loop_rate \in RateRange
    /\ loop_rates.coarse \in RateRange
    /\ loop_rates.fine \in RateRange
    /\ rate = current_loop_rate

(* an increment declined at the upper limit while a remembered rate sits   *)
(* at the lower limit                                                      *)
C1_Witness ==
    /\ current_loop_rate = MaxLoopRate
    /\ joy_msg.speed_cmd = SPEED_INC
    /\ cb_calls = << >>
    /\ loop_rates.fine = MinLoopRate

(* C5: a toggle to one profile immediately followed by a toggle to the     *)
(* other, with no speed adjustment in between, leaves the loop rate equal  *)
(* to its value before the two toggles.                                    *)
C5_ToggleRoundTrip ==
    toggles.n = 2 => current_loop_rate = toggles.before0

(* fine then coarse has just been handled, at a rate that is neither the   *)
(* initial one nor the one remembered for the other profile                *)
C5_Witness ==
    /\ toggles.n = 2
    /\ toggles.last = SPEED_COARSE
    /\ current_loop_rate = toggles.before0
    /\ current_loop_rate # InitLoopRate
    /\ current_loop_rate # loop_rates.fine

OtherProfile(code) == IF code = SPEED_COARSE THEN "fine" ELSE "coarse"

(* C6: each profile remembers its own last frequency independently.  When  *)
(* the toggle code of the active profile is received again, that profile   *)
(* was last active just now, so the loop rate stays what it is, and the    *)
(* rate remembered for the other profile is not overwritten.               *)
C6_ProfilesIndependent ==
    [][ ( /\ profile # 0
          /\ IsToggleOnly(joy_msg')
          /\ joy_msg'.speed_toggle_cmd = profile
          /\ cb_calls' # << >> )
        => /\ current_loop_rate' = current_loop_rate
           /\ loop_rates'[OtherProfile(profile)] = loop_rates[OtherProfile(profile)]
      ]_vars

IsSetPressure(c) == c.op = "set_pressure"

(* C4: from pressure 0.5 with step 0.125, for every sequence of            *)
(* gripper_pwm_cmd codes the gripper pressure stays within [0, 1], and so  *)
(* does every value passed to gripper.set_pressure.                        *)
C4_PressureWithinLimits ==
    /\ current_gripper_pressure \in MinGripperPressure..MaxGripperPressure
    /\ \A i \in 1..Len(cb_calls) :
           IsSetPressure(cb_calls[i]) =>
               /\ cb_calls[i].arg \in MinGripperPressure..MaxGripperPressure
               /\ cb_calls[i].arg = current_gripper_pressure

(* an increment declined at full pressure                                  *)
C4_Witness ==
    /\ current_gripper_pressure = MaxGripperPressure
    /\ joy_msg.gripper_pwm_cmd = GRIPPER_PWM_INC
    /\ \A i \in 1..Len(cb_calls) : ~IsSetPressure(cb_calls[i])

(* C3: under any interleaving of publishes and snapshots, a completed      *)
(* snapshot equals, field for field, the initial empty command or the most *)
(* recently completed publish, and it is never taken while a publish is    *)
(* under way; of two commands published between two ticks the later tick   *)
(* sees the second only.                                                   *)
C3_SnapshotIsLastPublish ==
    /\ ctrl_pc = "unlock" => msg = published
    /\ joy_mutex = "ctrl" => cb_pc \notin {"store", "unlock"}

(* two publishes completed since the last tick, differing in both fields,  *)
(* and the snapshot is the second                                          *)
C3_Witness ==
    /\ ctrl_pc = "unlock"
    /\ pubs_since_tick = 2
    /\ msg = published
    /\ msg.base_x_cmd # prev_published.base_x_cmd
    /\ msg.base_theta_cmd # prev_published.base_theta_cmd

(* the entries of tick_calls with a given name, and their positions        *)
CallsOf(op) == SelectSeq(tick_calls, LAMBDA c : c.op = op)
Positions(op) == { i \in 1..Len(tick_calls) : tick_calls[i].op = op }

PureEdit(m) == m.pose_cmd = 0 /\ m.waist_cmd = 0

(* C2 as stated: in a tick with an active Cartesian edit, T_yb after the   *)
(* tick equals T_yb before the tick if the inverse kinematics fails, and   *)
(* the working copy if it succeeds.                                        *)
C2_FailureKeepsTickStart ==
    LET iks == CallsOf("set_ee_pose_matrix")
    IN  Len(iks) = 1 =>
            /\ ~iks[1].ok => T_yb = T_yb_tick
            /\ iks[1].ok => dot(T_sy, T_yb) = iks[1].arg

(* C2, amended: T_yb after the tick equals T_yb as it stood when the       *)
(* working copy was taken (T_yb before the tick when the command carries   *)
(* no preset and no waist code) if the inverse kinematics fails, and the   *)
(* working copy if it succeeds; an ee_x increment that fails in one tick   *)
(* and succeeds in the next moves the x translation of T_yb by one         *)
(* translate_step in all.                                                  *)
C2_FailureKeepsEditStart ==
    LET iks == CallsOf("set_ee_pose_matrix")
        copies == CallsOf("copy_T_yb")
    IN  Len(iks) = 1 =>
            /\ Len(copies) = 1
            /\ PureEdit(msg) => copies[1].arg = T_yb_tick
            /\ ~iks[1].ok => T_yb = copies[1].arg
            /\ iks[1].ok => dot(T_sy, T_yb) = iks[1].arg
            /\ ( /\ iks[1].ok
                 /\ PureEdit(msg) /\ msg.ee_x_cmd = EE_X_INC
                 /\ prev_tick.ik = "fail"
                 /\ PureEdit(prev_tick.msg) /\ prev_tick.msg.ee_x_cmd = EE_X_INC )
               => T_yb.x = prev_tick.T_yb.x + translate_step

(* an ee_x increment failed in one tick and succeeded in the next          *)
C2_Witness ==
    /\ IkResult(tick_calls) = "ok"
    /\ PureEdit(msg) /\ msg.ee_x_cmd = EE_X_INC
    /\ prev_tick.ik = "fail"
    /\ PureEdit(prev_tick.msg) /\ prev_tick.msg.ee_x_cmd = EE_X_INC
    /\ T_yb.x = prev_tick.T_yb.x + translate_step

WaistCalls == CallsOf("set_single_joint_position")

(* the first waist request started from the upper limit and was rejected   *)
RejectedAtUpperLimit ==
    /\ msg.waist_cmd = WAIST_CCW
    /\ Len(WaistCalls) >= 1
    /\ WaistCalls[1].arg = waist_ul + waist_step
    /\ ~WaistCalls[1].ok

NoneAcceptedBeyondUpperLimit ==
    \A i \in 1..Len(WaistCalls) : WaistCalls[i].ok => WaistCalls[i].arg <= waist_ul

(* C7 as stated: with waist_cmd = ccw, the waist at the upper limit and    *)
(* the primary move rejected, a fallback move commanding exactly the upper *)
(* limit is issued, and no accepted request goes beyond the upper limit.   *)
C7_FallbackAtLimit ==
    /\ RejectedAtUpperLimit =>
           Len(WaistCalls) = 2 /\ WaistCalls[2].arg = waist_ul
    /\ msg.waist_cmd = WAIST_CCW => NoneAcceptedBeyondUpperLimit

(* C7, amended: with waist_cmd = ccw, the waist at the upper limit and the *)
(* primary move rejected, no fallback is issued: the rejected primary is   *)
(* the only waist request of the tick.  A fallback commanding exactly the  *)
(* upper limit is issued when the primary is rejected from any other       *)
(* angle.  No accepted request goes beyond the upper limit.                *)
C7_NoFallbackAtLimit ==
    msg.waist_cmd = WAIST_CCW =>
        /\ Len(WaistCalls) >= 1
        /\ RejectedAtUpperLimit => Len(WaistCalls) = 1
        /\ WaistCalls[1].ok => Len(WaistCalls) = 1
        /\ (~WaistCalls[1].ok /\ WaistCalls[1].arg # waist_ul + waist_step) =>
               Len(WaistCalls) = 2 /\ WaistCalls[2].arg = waist_ul
        /\ NoneAcceptedBeyondUpperLimit

(* the waist stood at the upper limit after a fallback, and the next ccw   *)
(* request was rejected                                                    *)
C7_Witness ==
    /\ RejectedAtUpperLimit
    /\ arm_waist = waist_ul
    /\ Len(WaistCalls) = 1

PresetOp(code) == IF code = HOME_POSE THEN "go_to_home_pose" ELSE "go_to_sleep_pose"

(* C8: in a tick whose snapshot has pose_cmd = home and no waist command,  *)
(* the home preset is invoked exactly once and update_T_yb exactly once,   *)
(* after the preset; likewise for pose_cmd = sleep and the sleep preset.   *)
C8_PresetThenRecompute ==
    (msg.pose_cmd \in {HOME_POSE, SLEEP_POSE} /\ msg.waist_cmd = 0) =>
        /\ Cardinality(Positions(PresetOp(msg.pose_cmd))) = 1
        /\ Cardinality(Positions("go_to_home_pose") \cup Positions("go_to_sleep_pose")) = 1
        /\ Cardinality(Positions("update_T_yb")) = 1
        /\ \A p \in Positions(PresetOp(msg.pose_cmd)) :
               \A u \in Positions("update_T_yb") : p < u

(* a home preset and an x edit in one tick, the edit committed             *)
C8_Witness ==
    /\ msg.pose_cmd = HOME_POSE /\ msg.waist_cmd = 0 /\ msg.ee_x_cmd = EE_X_INC
    /\ Positions("go_to_home_pose") = {1}
    /\ IkResult(tick_calls) = "ok"

RecomputeAtStartupAndPresets ==
    /\ prev_tick.what = "none" => tick_calls = << Call("update_T_yb", 0, TRUE) >>
    /\ \A p \in Positions("go_to_home_pose") \cup Positions("go_to_sleep_pose") :
           p < Len(tick_calls) /\ tick_calls[p + 1].op = "update_T_yb"

(* C9 as stated: update_T_yb is invoked once at startup, after every       *)
(* preset pose command, and after every committed incremental edit: when a *)
(* tick's inverse kinematics succeeds, a recompute follows before the next *)
(* tick builds its edit.                                                   *)
C9_RecomputeAfterCommit ==
    /\ RecomputeAtStartupAndPresets
    /\ (prev_tick.ik = "ok" /\ Positions("set_ee_pose_matrix") # {}) =>
           \E u \in Positions("update_T_yb") :
               \A e \in Positions("copy_T_yb") : u < e

(* C9, amended: update_T_yb is invoked once at startup, after every preset *)
(* pose command and after every waist command, and at no other point: in   *)
(* particular not after a committed incremental edit, whose inverse        *)
(* kinematics request is the last thing its tick does.                     *)
C9_RecomputeOnlyAfterPresetAndWaist ==
    /\ RecomputeAtStartupAndPresets
    /\ msg.waist_cmd # 0 =>
           /\ WaistCalls # << >>
           /\ \A w \in Positions("set_single_joint_position") : w < Len(tick_calls)
           /\ \E u \in Positions("update_T_yb") :
                  /\ tick_calls[u - 1].op = "set_single_joint_position"
                  /\ \A w \in Positions("set_single_joint_position") : w < u
    /\ prev_tick.what # "none" =>
           Cardinality(Positions("update_T_yb")) =
               (IF msg.pose_cmd # 0 THEN 1 ELSE 0) + (IF msg.waist_cmd # 0 THEN 1 ELSE 0)
    /\ \A e \in Positions("set_ee_pose_matrix") : e = Len(tick_calls)

(* two ticks in a row committed an edit, the second without any recompute  *)
C9_Witness ==
    /\ prev_tick.ik = "ok"
    /\ IkResult(tick_calls) = "ok"
    /\ Positions("update_T_yb") = {}

(* C10: for an arm with at least 6 joints, a y edit changes the y          *)
(* translation of the working pose by exactly one translate_step, signed   *)
(* by its direction, when the x translation of the working pose after this *)
(* tick's own x edit is > 0.3, and leaves it unchanged when that is <= 0.3.*)
(* The pose requested from the inverse kinematics is the working pose      *)
(* turned by T_sy, which leaves x and y in the yaw frame as they are.      *)
C10_LateralGuard ==
    LET iks == CallsOf("set_ee_pose_matrix")
        copies == CallsOf("copy_T_yb")
    IN  (num_joints >= MinJointsForY /\ msg.ee_y_cmd \in {EE_Y_INC, EE_Y_DEC}) =>
            /\ Len(iks) = 1 /\ Len(copies) = 1
            /\ iks[1].arg.y - copies[1].arg.y =
                   IF iks[1].arg.x > MinYEditX
                   THEN (IF msg.ee_y_cmd = EE_Y_INC THEN translate_step ELSE -translate_step)
                   ELSE 0

(* the x edit of the same tick took x from 0.3 to above it, and the y edit *)
(* was applied                                                             *)
C10_Witness ==
    LET iks == CallsOf("set_ee_pose_matrix")
        copies == CallsOf("copy_T_yb")
    IN  /\ num_joints >= MinJointsForY
        /\ msg.ee_x_cmd = EE_X_INC /\ msg.ee_y_cmd = EE_Y_INC
        /\ Len(iks) = 1 /\ Len(copies) = 1
        /\ copies[1].arg.x = MinYEditX
        /\ iks[1].arg.y = copies[1].arg.y + translate_step

(* the requests and queries that go to the arm and gripper facades         *)
ArmOps ==
    { "release", "grasp", "set_pressure", "go_to_home_pose", "go_to_sleep_pose",
      "get_single_joint_command", "set_single_joint_position", "set_ee_pose_matrix", "update_T_yb", "copy_T_yb" }

OpsOf(calls) == { calls[i].op : i \in 1..Len(calls) }

(* C11: on a base-only robot no command arrival and no tick issues a       *)
(* request or a pose query to the arm or gripper facade, and the gripper   *)
(* pressure never changes, whatever the command holds; every tick still    *)
(* dispatches the camera codes and, with base control, the base velocity.  *)
C11_NoArmNoArmRequests ==
    arm_model = "none" =>
        /\ OpsOf(cb_calls) \cap ArmOps = {}
        /\ OpsOf(tick_calls) \cap ArmOps = {}
        /\ current_gripper_pressure = InitGripperPressure
        /\ prev_tick.what # "none" =>
               /\ (msg.pan_cmd # 0 \/ msg.tilt_cmd # 0) =>
                      OpsOf(tick_calls) \cap {"pan_tilt_go_home", "pan_tilt_move"} # {}
               /\ use_base => "command_velocity_xyaw" \in OpsOf(tick_calls)

(* a command with gripper, preset, waist and edit codes arrived and was    *)
(* dispatched: the odometry reset, the camera and the base were served     *)
C11_Witness ==
    /\ arm_model = "none" /\ use_base
    /\ cb_msg.gripper_cmd = GRIPPER_GRASP /\ cb_msg.gripper_pwm_cmd = GRIPPER_PWM_INC
    /\ cb_calls = << Call("reset_odom", 0, TRUE) >>
    /\ msg.pose_cmd = HOME_POSE /\ msg.waist_cmd = WAIST_CCW /\ msg.ee_x_cmd = EE_X_INC
    /\ OpsOf(tick_calls) = { "get_joint_commands", "pan_tilt_move", "command_velocity_xyaw" }

(* C12: the held command is the only attribute used by both the callback   *)
(* thread and the control-loop thread, every use of it is made while       *)
(* holding joy_mutex, and no attribute is used by two threads without the  *)
(* mutex: the loop rate, the Rate object, the remembered rates and the     *)
(* gripper pressure each have at most one thread using them.               *)
C12_OnlyHeldCommandShared ==
    /\ unlocked["joy_msg"] = {}
    /\ \A a \in Attributes : Cardinality(unlocked[a]) <= 1

PureYaw(T) == T = [ Identity EXCEPT !.yaw = T.yaw ]

(* C14: T_sy is always a pure yaw rotation with zero translation, and      *)
(* right after update_T_yb (a tick, or __init__, that ends with it) T_sy   *)
(* carries the yaw of the arm's commanded end-effector pose, T_yb carries  *)
(* none, and T_sy . T_yb is that commanded pose.                           *)
C14_RecomputeRoundTrip ==
    /\ PureYaw(T_sy)
    /\ (tick_calls # << >> /\ tick_calls[Len(tick_calls)].op = "update_T_yb") =>
           /\ T_sy.yaw = arm_ee_pose.yaw
           /\ T_yb.yaw = 0
           /\ dot(T_sy, T_yb) = arm_ee_pose

(* a recompute read a pose turned by the waist and moved by an edit        *)
C14_Witness ==
    /\ tick_calls # << >> /\ tick_calls[Len(tick_calls)].op = "update_T_yb"
    /\ arm_ee_pose.yaw # 0
    /\ arm_ee_pose.x \notin { SleepPose.x, HomePose.x }
    /\ dot(T_sy, T_yb) = arm_ee_pose

(* the callback thread is between its invocation and the end of its       *)
(* with-block                                                              *)
Publishing == cb_pc \in {"lock", "store", "unlock"}

(* no callback stays in its with-block for ever, so every publish that     *)
(* starts completes; ticks start again and again and end again and again,  *)
(* so every tick that starts completes and another follows                 *)
PublishesAndTicksComplete ==
    /\ []<>~Publishing
    /\ []<>(ctrl_pc = "copy")
    /\ []<>(ctrl_pc = "sleep")

(* strong fairness of taking joy_mutex, SF_vars(CbAcquire) for "cb" and    *)
(* SF_vars(CtrlAcquire) for "ctrl", written out on the states: the thread  *)
(* is from some point on never at its acquire with the mutex free, or it   *)
(* holds the mutex again and again                                         *)
FairMutex(thread) ==
    \/ <>[]~( /\ joy_mutex = "free"
              /\ IF thread = "cb" THEN cb_pc = "lock" ELSE ctrl_pc = "sleep" )
    \/ []<>(joy_mutex = thread)

WaistBefore == CallsOf("get_single_joint_command")[1].arg

WaistDir == IF msg.waist_cmd = WAIST_CCW THEN 1 ELSE -1

RelevantLimit == IF msg.waist_cmd = WAIST_CCW THEN waist_ul ELSE waist_ll

(* C16: in a tick with a waist direction code the first waist request      *)
(* commands the angle read plus or minus waist_step; a second request is   *)
(* issued exactly if the first was rejected and the angle read differs     *)
(* from the relevant limit, and it commands that limit; there are at most  *)
(* two waist requests; and update_T_yb is called exactly once after them,  *)
(* whatever the arm answered.                                              *)
C16_WaistFallbackAndRecompute ==
    msg.waist_cmd \in {WAIST_CCW, WAIST_CW} =>
        LET n == Len(WaistCalls)
            last == CHOOSE w \in Positions("set_single_joint_position") :
                        \A v \in Positions("set_single_joint_position") : v <= w
        IN  /\ n \in {1, 2}
            /\ WaistCalls[1].arg = WaistBefore + WaistDir * waist_step
            /\ n = 2 <=> (~WaistCalls[1].ok /\ WaistBefore # RelevantLimit)
            /\ n = 2 => WaistCalls[2].arg = RelevantLimit
            /\ Cardinality({ u \in Positions("update_T_yb") : u > last }) = 1
            /\ tick_calls[last + 1].op = "update_T_yb"

(* a cw tick whose first request went below the lower limit and was        *)
(* rejected, and whose fallback to the lower limit was rejected as well;   *)
(* the recompute followed                                                  *)
C16_Witness ==
    /\ msg.waist_cmd = WAIST_CW
    /\ Len(WaistCalls) = 2
    /\ WaistCalls[1].arg < waist_ll
    /\ WaistCalls[2].arg = waist_ll /\ ~WaistCalls[2].ok
    /\ tick_calls[Len(tick_calls)].op = "update_T_yb"

(* the camera requests of the last tick                                    *)
CamHomes == CallsOf("pan_tilt_go_home")
CamMoves == CallsOf("pan_tilt_move")
CamReads == CallsOf("get_joint_commands")

BothHome == msg.pan_cmd = PAN_TILT_HOME /\ msg.tilt_cmd = PAN_TILT_HOME

(* the change a code asks for on its axis                                  *)
CamStep(code, plus, minus) ==
    IF code = plus THEN waist_step ELSE IF code = minus THEN -waist_step ELSE 0

(* C17: a tick issues at most one camera request: a home move exactly if   *)
(* pan_cmd and tilt_cmd are both the home sentinel; otherwise a move       *)
(* exactly if one of them is nonzero, to the commanded positions read in   *)
(* that tick plus or minus waist_step on an axis with a direction code     *)
(* and unchanged on any other axis; and none if both are zero.             *)
C17_CameraDispatch ==
    prev_tick.what # "none" =>
        /\ Len(CamHomes) + Len(CamMoves) <= 1
        /\ Len(CamHomes) = 1 <=> BothHome
        /\ Len(CamMoves) = 1 <=> (~BothHome /\ (msg.pan_cmd # 0 \/ msg.tilt_cmd # 0))
        /\ Len(CamMoves) = 1 =>
               /\ Len(CamReads) = 1
               /\ CamMoves[1].arg[1] - CamReads[1].arg[1]
                      = CamStep(msg.pan_cmd, PAN_CCW, PAN_CW)
               /\ CamMoves[1].arg[2] - CamReads[1].arg[2]
                      = CamStep(msg.tilt_cmd, TILT_UP, TILT_DOWN)
        /\ (msg.pan_cmd = 0 /\ msg.tilt_cmd = 0) =>
               Len(CamHomes) = 0 /\ Len(CamMoves) = 0

(* a tick with the home sentinel on pan alone and tilt up moved the        *)
(* camera from a turned position, leaving pan where it was                 *)
C17_Witness ==
    /\ prev_tick.what # "none"
    /\ msg.pan_cmd = PAN_TILT_HOME /\ msg.tilt_cmd = TILT_UP
    /\ Len(CamMoves) = 1 /\ CamMoves[1].ok
    /\ CamReads[1].arg[1] # 0
    /\ CamMoves[1].arg = << CamReads[1].arg[1], CamReads[1].arg[2] + waist_step >>
    /\ cam_positions = CamMoves[1].arg

(* the velocity commands of the last tick                                  *)
VelocityCalls == CallsOf("command_velocity_xyaw")

(* C18: with base control every tick issues exactly one velocity command,  *)
(* carrying base_x_cmd and base_theta_cmd of its snapshot as they are;     *)
(* without base control no tick issues a velocity command and no callback  *)
(* requests an odometry reset, whatever the command holds.                 *)
C18_BaseVelocityEveryTick ==
    /\ (use_base /\ prev_tick.what # "none") =>
           /\ Len(VelocityCalls) = 1
           /\ VelocityCalls[1].arg = << msg.base_x_cmd, msg.base_theta_cmd >>
    /\ ~use_base =>
           /\ Len(VelocityCalls) = 0
           /\ "reset_odom" \notin OpsOf(cb_calls) \cup OpsOf(tick_calls)

(* a robot without an arm, with base control: the tick after a tick on the *)
(* same all-zero command sent the zero velocity command again              *)
C18_Witness ==
    /\ use_base /\ arm_model = "none"
    /\ prev_tick.what = "tick" /\ prev_tick.msg = msg
    /\ msg.base_x_cmd = 0 /\ msg.base_theta_cmd = 0
    /\ tick_calls = << Call("command_velocity_xyaw", << 0, 0 >>, TRUE) >>

(* the inverse-kinematics requests of the last tick                        *)
IkCalls == CallsOf("set_ee_pose_matrix")

(* an edit code of the snapshot is active and eligible                     *)
EligibleEdit ==
    \/ msg.ee_x_cmd # 0 \/ msg.ee_z_cmd # 0
    \/ msg.ee_roll_cmd # 0 \/ msg.ee_pitch_cmd # 0
    \/ (num_joints >= MinJointsForY /\ msg.ee_y_cmd # 0)

(* C19: a tick issues an inverse-kinematics request exactly if an eligible *)
(* edit code is active, ee_y_cmd being eligible only with 6 joints or      *)
(* more; with fewer joints a snapshot whose only edit is ee_y_cmd leaves   *)
(* T_yb as it was, and with another edit beside ee_y_cmd the y of the      *)
(* requested target is the y the tick started from.                        *)
C19_EligibleEdits ==
    prev_tick.what # "none" =>
        /\ Len(IkCalls) = (IF EligibleEdit THEN 1 ELSE 0)
        /\ (num_joints < MinJointsForY /\ msg.ee_y_cmd # 0 /\ ~EligibleEdit) =>
               T_yb = T_yb_tick
        /\ (num_joints < MinJointsForY /\ msg.ee_y_cmd # 0 /\ EligibleEdit) =>
               IkCalls[1].arg.y = T_yb_tick.y

(* a 5-joint arm: a tick on a command with ee_y_cmd alone made no request; *)
(* the next, with ee_y_cmd and ee_pitch_cmd, had its request accepted and  *)
(* committed the pitch with y as it was                                    *)
C19_Witness ==
    /\ num_joints < MinJointsForY
    /\ prev_tick.what = "tick" /\ prev_tick.ik = "none"
    /\ prev_tick.msg = [ LocobotJoy EXCEPT !.ee_y_cmd = EE_Y_INC ]
    /\ msg.ee_y_cmd = EE_Y_DEC /\ msg.ee_pitch_cmd = EE_PITCH_DOWN
    /\ Len(IkCalls) = 1 /\ IkCalls[1].ok
    /\ T_yb.pitch = T_yb_tick.pitch + rotate_step
    /\ T_yb.y = T_yb_tick.y

(* how many of the calls are op                                            *)
Count(calls, op) == Len(SelectSeq(calls, LAMBDA c : c.op = op))

(* the requests joy_control_cb makes for the codes it handles              *)
ArrivalOps == { "create_rate", "reset_odom", "release", "grasp", "set_pressure" }

(* no tick clears the held command: it is the command of the last callback *)
SnapshotKeepsHeldCommand == joy_msg = cb_msg

(* every tick issues the request of each camera, preset, waist and edit    *)
(* code of its snapshot, and none of the requests made at arrival          *)
RepeatCodesIssuedEveryTick ==
    prev_tick.what # "none" =>
        /\ (msg.pan_cmd # 0 \/ msg.tilt_cmd # 0) =>
               Len(CamHomes) + Len(CamMoves) = 1
        /\ msg.pose_cmd \in {HOME_POSE, SLEEP_POSE} =>
               Count(tick_calls, PresetOp(msg.pose_cmd)) = 1
        /\ msg.waist_cmd \in {WAIST_CCW, WAIST_CW} => Len(WaistCalls) >= 1
        /\ EligibleEdit => Len(IkCalls) = 1
        /\ OpsOf(tick_calls) \cap ArrivalOps = {}

(* the callback has acted once on each speed, odometry-reset, gripper and  *)
(* pressure code of the command that arrived last (a speed or pressure     *)
(* code at its limit changes nothing)                                      *)
EdgeCodesAppliedAtArrival ==
    /\ cb_msg.speed_cmd = SPEED_INC =>
           Count(cb_calls, "create_rate") = 1 \/ current_loop_rate = MaxLoopRate
    /\ Count(cb_calls, "reset_odom") =
           (IF cb_msg.base_reset_odom_cmd = RESET_ODOM /\ use_base THEN 1 ELSE 0)
    /\ Count(cb_calls, "grasp") = (IF cb_msg.gripper_cmd = GRIPPER_GRASP THEN 1 ELSE 0)
    /\ Count(cb_calls, "release") = (IF cb_msg.gripper_cmd = GRIPPER_RELEASE THEN 1 ELSE 0)
    /\ cb_msg.gripper_pwm_cmd = GRIPPER_PWM_INC =>
           \/ Count(cb_calls, "set_pressure") = 1
           \/ current_gripper_pressure = MaxGripperPressure

(* what holds of a callback that no exception has left                     *)
EdgeCodesAppliedUnlessRaised == cb_pc # "dead" => EdgeCodesAppliedAtArrival

(* C20 as stated: taking a snapshot does not clear the held command, so    *)
(* the camera, preset, waist and edit codes of a command cause their       *)
(* requests in every tick until another command arrives, whereas its       *)
(* speed, odometry-reset, gripper and pressure codes take effect exactly   *)
(* once, at arrival.                                                       *)
C20_RepeatUntilOverwritten ==
    /\ SnapshotKeepsHeldCommand
    /\ RepeatCodesIssuedEveryTick
    /\ EdgeCodesAppliedAtArrival

=============================================================================
